---------------------------- MODULE Spec2Model ----------------------------
(***************************************************************************)
(* Model of the Action Coordination Engine of                              *)
(* src/src/coordination-engine/app.py: the Action record, the              *)
(* ConflictResolver, the CoordinationEngine store and queue, the scheduler *)
(* thread's tick (_process_next_batch) and the HTTP handlers that mutate   *)
(* the store (POST /actions, PUT and DELETE /api/v1/incidents/<id>).       *)
(*                                                                         *)
(* Python objects are references: the store, the tick's locals and the     *)
(* conflict pairs all point at the same Action objects.  objs is the heap  *)
(* of Action objects ever constructed; everything else holds indices into  *)
(* it.  created_at is the construction instant, modelled as the index of   *)
(* the object, so two objects are equal as dataclasses exactly when they   *)
(* are the same object.                                                    *)
(*                                                                         *)
(* Confidence is counted in tenths (0.7 is 7, the default 1.0 is 10).      *)
(* The engine has no lock: handlers run on request threads between the     *)
(* steps of the scheduler thread.  A handler body and one statement group  *)
(* of the tick are each taken as one step.                                 *)
(***************************************************************************)
EXTENDS Integers, Sequences, FiniteSets, TLC

\* ------------------------------------------------------------------ bounds

\* Action objects constructed in one behaviour (calls of submit_action).
MaxObjects == 2

\* Priorities resolve_conflict is called with in SpecResolve: 1..MaxPriority.
MaxPriority == 3

\* Actions in the queue at the start of SpecBatch: 1..MaxBatch.
MaxBatch == 3

\* Scheduler threads started in one behaviour (calls of start).
MaxThreads == 2

\* Actions in the store when get_incidents is called: 0..MaxStore.
MaxStore == 3

\* Points in a metric series handed to the anomaly detection: 0..MaxPoints.
MaxPoints == 11

\* Queue lengths health is called at: 0..MaxQueueLength.
MaxQueueLength == 101

\* Clock seconds a remediation trigger is served in: 1..MaxSecond.
MaxSecond == 2

\* ------------------------------------------------------- program constants

ConfidenceThreshold == 7

DefaultConfidence == 10

\* The number health compares the queue length with.
QueueCeiling == 100

\* The threshold of the StatisticalAnomalyModel of the engine, 2.5, counted
\* in halves.
StatisticalThreshold == 5

\* The z-score magnitude above which an outlier's severity is high.
HighZScore == 3

\* The points a series needs for the statistical analysis.
MinPoints == 3

\* The ensemble confidence when nothing was flagged, 0.5, and the cap of an
\* outlier's confidence, 0.95, in thousandths.
NoAnomalyConfidence == 500

ConfidenceCap == 950

\* The priority and the confidence, 0.9 in tenths, of a remediation trigger
\* that names none.
TriggerPriority == 8

TriggerConfidence == 9

ActionType == {"node_remediation", "model_inference", "alert_correlation", "resource_scaling"}

ActionSource == {"deterministic", "ai_driven", "manual"}

ActionStatus == {"pending", "running", "completed", "failed", "cancelled"}

Terminal == {"completed", "failed", "cancelled"}

\* The two-element type sets of _actions_conflict.
conflicting_types == {<<"node_remediation", "resource_scaling">>, <<"model_inference", "alert_correlation">>}

\* ------------------------------------------------------------ input domains

\* The ids the handlers are called with.
Ids == {"a1", "a2"}

Targets == {"node1", "podX"}

Confidences == {4, 7, 9}

\* Python's None, where an Action may stand instead.
None == [none |-> TRUE]

\* An Action as the dataclass constructs it: status pending, no start or
\* completion stamp.
Action(id, type, source, priority, target, confidence, created_at) ==
    [id |-> id, type |-> type, source |-> source, priority |-> priority,
     target |-> target, confidence |-> confidence, status |-> "pending",
     created_at |-> created_at, started_at |-> FALSE, completed_at |-> FALSE]

\* --------------------------------------------------------- ConflictResolver

\* _actions_conflict taking two actions of one type for conflicting as well.
actions_conflict_same_type(action1, action2) ==
    \/ action1.target = action2.target
    \/ action1.type = action2.type
    \/ <<action1.type, action2.type>> \in conflicting_types
    \/ <<action2.type, action1.type>> \in conflicting_types

\* _actions_conflict looking the pair of types up in the written order only.
actions_conflict_one_way(action1, action2) ==
    \/ action1.target = action2.target
    \/ <<action1.type, action2.type>> \in conflicting_types

actions_conflict(action1, action2) ==
    \/ action1.target = action2.target
    \/ <<action1.type, action2.type>> \in conflicting_types
    \/ <<action2.type, action1.type>> \in conflicting_types

\* resolve_same_target returning the ai_driven action of the pair.
resolve_same_target_swapped(action1, action2) ==
    IF action1.target # action2.target THEN None
    ELSE IF action1.source = "deterministic" /\ action2.source = "ai_driven" THEN action2
    ELSE IF action2.source = "deterministic" /\ action1.source = "ai_driven" THEN action1
    ELSE None

\* resolve_same_target without its elif branch.
resolve_same_target_first_only(action1, action2) ==
    IF action1.target # action2.target THEN None
    ELSE IF action1.source = "deterministic" /\ action2.source = "ai_driven" THEN action1
    ELSE None

resolve_same_target(action1, action2) ==
    IF action1.target # action2.target THEN None
    ELSE IF action1.source = "deterministic" /\ action2.source = "ai_driven" THEN action1
    ELSE IF action2.source = "deterministic" /\ action1.source = "ai_driven" THEN action2
    ELSE None

\* resolve_priority_conflict with the comparison turned round.
resolve_priority_conflict_lt(action1, action2) ==
    IF action1.priority # action2.priority
    THEN (IF action1.priority < action2.priority THEN action1 ELSE action2)
    ELSE None

resolve_priority_conflict(action1, action2) ==
    IF action1.priority # action2.priority
    THEN (IF action1.priority > action2.priority THEN action1 ELSE action2)
    ELSE None

resolve_low_confidence(action1, action2) ==
    IF action1.source = "ai_driven" /\ action1.confidence < ConfidenceThreshold THEN action2
    ELSE IF action2.source = "ai_driven" /\ action2.confidence < ConfidenceThreshold THEN action1
    ELSE None

\* resolve_conflict with low_confidence registered before priority_conflict.
resolve_conflict_low_first(action1, action2) ==
    LET r1 == resolve_same_target(action1, action2)
        r2 == resolve_priority_conflict(action1, action2)
        r3 == resolve_low_confidence(action1, action2)
    IN  IF r1 # None THEN r1
        ELSE IF r3 # None THEN r3
        ELSE IF r2 # None THEN r2
        ELSE IF action1.priority > action2.priority THEN action1 ELSE action2

\* resolve_conflict with >= in the default.
resolve_conflict_ge(action1, action2) ==
    LET r1 == resolve_same_target(action1, action2)
        r2 == resolve_priority_conflict(action1, action2)
        r3 == resolve_low_confidence(action1, action2)
    IN  IF r1 # None THEN r1
        ELSE IF r2 # None THEN r2
        ELSE IF r3 # None THEN r3
        ELSE IF action1.priority >= action2.priority THEN action1 ELSE action2

\* The rules in the insertion order of resolution_rules, first result wins,
\* then the default.
resolve_conflict(action1, action2) ==
    LET r1 == resolve_same_target(action1, action2)
        r2 == resolve_priority_conflict(action1, action2)
        r3 == resolve_low_confidence(action1, action2)
    IN  IF r1 # None THEN r1
        ELSE IF r2 # None THEN r2
        ELSE IF r3 # None THEN r3
        ELSE IF action1.priority > action2.priority THEN action1 ELSE action2

\* ---------------------------------------------------------------- sequences

RECURSIVE Remove(_, _)
\* list.remove(x): drops the first element equal to x.
Remove(s, x) ==
    IF s = <<>> THEN <<>>
    ELSE IF Head(s) = x THEN Tail(s)
    ELSE <<Head(s)>> \o Remove(Tail(s), x)

Elems(s) == {s[k] : k \in 1..Len(s)}

RECURSIVE PairsFrom(_, _, _)
\* The index pairs (i, j), i < j <= n, in the order of the nested loops of
\* detect_conflicts.
PairsFrom(i, j, n) ==
    IF i >= n THEN <<>>
    ELSE IF j > n THEN PairsFrom(i + 1, i + 2, n)
    ELSE <<(<<i, j>>)>> \o PairsFrom(i, j + 1, n)

\* detect_conflicts comparing each action with its successor only.
detect_conflicts_adjacent(heap, batch) ==
    LET hit == SelectSeq([k \in 1..(Len(batch) - 1) |-> <<k, k + 1>>],
                         LAMBDA p : actions_conflict(heap[batch[p[1]]], heap[batch[p[2]]]))
    IN  [k \in 1..Len(hit) |-> <<batch[hit[k][1]], batch[hit[k][2]]>>]

\* detect_conflicts over a list of object references; heap gives the objects.
detect_conflicts(heap, batch) ==
    LET hit == SelectSeq(PairsFrom(1, 2, Len(batch)),
                         LAMBDA p : actions_conflict(heap[batch[p[1]]], heap[batch[p[2]]]))
    IN  [k \in 1..Len(hit) |-> <<batch[hit[k][1]], batch[hit[k][2]]>>]

\* -------------------------------------------------------- anomaly detection

RECURSIVE SumTo(_, _)
\* s[1] + ... + s[k].
SumTo(s, k) == IF k = 0 THEN 0 ELSE s[k] + SumTo(s, k - 1)

SumSeq(s) == SumTo(s, Len(s))

RECURSIVE Flatten(_)
\* The concatenation of a sequence of sequences.
Flatten(ss) == IF ss = <<>> THEN <<>> ELSE Head(ss) \o Flatten(Tail(ss))

\* The integer part of the square root.
ISqrt(m) == CHOOSE k \in 0..(m + 1) : k * k <= m /\ m < (k + 1) * (k + 1)

\* n times the deviation of each value from statistics.mean(values).
Deviations(values) ==
    LET total == SumSeq(values)
    IN  [i \in 1..Len(values) |-> Len(values) * values[i] - total]

\* n * n * (n - 1) times the square of statistics.stdev(values): the sum of
\* the squared deviations dev.
SquaredDeviations(dev) == SumSeq([i \in 1..Len(dev) |-> dev[i] * dev[i]])

\* abs(z_score) > bound for a point of deviation d in a series of n points
\* with the sum sq of squared deviations, where bound is num / den: with
\* z = (val - mean) / std, z * z is d * d * (n - 1) / sq.
ZScoreExceeds(d, sq, n, num, den) ==
    den * den * d * d * (n - 1) > num * num * sq

\* abs(z_score) in tenths, cut off.
ZScoreTenths(d, sq, n) == ISqrt((100 * d * d * (n - 1)) \div sq)

\* The anomaly the statistical model appends for the point i of a metric,
\* of deviation d; the confidence min(0.95, abs(z_score) / 4) in
\* thousandths, from the z-score in tenths.
outlier(metric, i, d, sq) ==
    LET z == ZScoreTenths(d, sq, Len(metric.values))
    IN  [type |-> "statistical_outlier", metric |-> metric.name, point |-> i,
         value |-> metric.values[i], z_score |-> z,
         severity |-> IF ZScoreExceeds(d, sq, Len(metric.values), HighZScore, 1)
                      THEN "high" ELSE "medium",
         confidence |-> IF z * 25 > ConfidenceCap THEN ConfidenceCap ELSE z * 25,
         model |-> "Statistical"]

\* The body of the loop with a threshold of 1.5 in place of the model's.
metric_outliers_low_threshold(metric) ==
    LET n == Len(metric.values)
        dev == Deviations(metric.values)
        sq == SquaredDeviations(dev)
    IN  IF n < MinPoints THEN <<>>
        ELSE IF sq > 0
        THEN LET hits == SelectSeq([i \in 1..n |-> i],
                             LAMBDA i : ZScoreExceeds(dev[i], sq, n, 3, 2))
             IN  [k \in 1..Len(hits) |-> outlier(metric, hits[k], dev[hits[k]], sq)]
        ELSE <<>>

\* The body of the loop of StatisticalAnomalyModel.detect_anomalies for one
\* metric with numeric values: the outliers of the series, in order.
metric_outliers(metric) ==
    LET n == Len(metric.values)
        dev == Deviations(metric.values)
        sq == SquaredDeviations(dev)
    IN  IF n < MinPoints THEN <<>>
        ELSE IF sq > 0
        THEN LET hits == SelectSeq([i \in 1..n |-> i],
                             LAMBDA i : ZScoreExceeds(dev[i], sq, n, StatisticalThreshold, 2))
             IN  [k \in 1..Len(hits) |-> outlier(metric, hits[k], dev[hits[k]], sq)]
        ELSE <<>>

\* A call of a model's detect_anomalies that raised, and one that returned.
Raised == [raised |-> TRUE, anomalies |-> <<>>]

Returned(anomalies) == [raised |-> FALSE, anomalies |-> anomalies]

\* model.detect_anomalies(metrics) for the models there are: the statistical
\* model raises in statistics.mean when a series of three or more values
\* holds one that is no number and returns the outliers of all the series
\* otherwise; the base class AnomalyDetectionModel raises NotImplementedError.
model_detect_anomalies(model, metrics) ==
    IF model = "Statistical"
    THEN IF \E k \in 1..Len(metrics) :
                ~metrics[k].numeric /\ Len(metrics[k].values) >= MinPoints
         THEN Raised
         ELSE Returned(Flatten([k \in 1..Len(metrics) |-> metric_outliers(metrics[k])]))
    ELSE Raised

\* The names of the models: StatisticalAnomalyModel names itself
\* "Statistical"; "Custom" is an instance of the base class.
ModelNames == {"Statistical", "Custom"}

\* str.lower() on the names that occur.
Lower(name) ==
    CASE name \in {"Statistical", "STATISTICAL", "statistical"} -> "statistical"
      [] name \in {"Custom", "custom"} -> "custom"
      [] OTHER -> name

Severities == {"critical", "high", "medium", "warning", "low"}

\* The try statement with an except clause that counts the failed model as
\* one anomaly.
model_result_leaky(model, metrics) ==
    LET call == model_detect_anomalies(model, metrics)
    IN  IF call.raised
        THEN [error |-> TRUE, anomalies_count |-> 1, anomalies |-> <<>>]
        ELSE [error |-> FALSE, anomalies_count |-> Len(call.anomalies),
              anomalies |-> call.anomalies]

\* What the try statement of the ensemble's loop stores under model.name.
model_result(model, metrics) ==
    LET call == model_detect_anomalies(model, metrics)
    IN  IF call.raised
        THEN [error |-> TRUE, anomalies_count |-> 0, anomalies |-> <<>>]
        ELSE [error |-> FALSE, anomalies_count |-> Len(call.anomalies),
              anomalies |-> call.anomalies]

\* AnomalyDetectionEngine.detect_anomalies over the models of self.models.
detect_anomalies(models, metrics, model_names) ==
    LET active_models ==
            IF model_names # <<>>
            THEN SelectSeq(models, LAMBDA m :
                     Lower(m) \in {Lower(model_names[k]) : k \in 1..Len(model_names)})
            ELSE models
        results == [k \in 1..Len(active_models) |-> model_result(active_models[k], metrics)]
        all_anomalies == Flatten([k \in 1..Len(results) |-> results[k].anomalies])
        total_anomalies == Len(all_anomalies)
        avg_confidence ==
            IF total_anomalies > 0
            THEN SumSeq([k \in 1..total_anomalies |-> all_anomalies[k].confidence])
                     \div total_anomalies
            ELSE NoAnomalyConfidence
    IN  [total_anomalies |-> total_anomalies,
         ensemble_confidence |-> avg_confidence,
         severity_breakdown |->
             [v \in Severities |->
                 Cardinality({k \in 1..total_anomalies : all_anomalies[k].severity = v})],
         anomalies |-> all_anomalies,
         model_results |->
             [name \in Elems(active_models) |->
                 LET last == CHOOSE k \in 1..Len(active_models) :
                                 /\ active_models[k] = name
                                 /\ \A j \in (k + 1)..Len(active_models) :
                                        active_models[j] # name
                 IN  results[last]],
         models_used |-> active_models]

\* ------------------------------------------------------------------- state

VARIABLES
    objs,              \* heap: the Action objects constructed so far
    actions,           \* engine.actions: id -> object (0 where the key is absent)
    action_queue,      \* engine.action_queue: list of ids
    running,           \* engine.running
    pc,                \* where the scheduler thread stands
    pending_actions,   \* _process_next_batch: the snapshot (object references)
    conflicts,         \* _process_next_batch: the detected pairs
    resolved_actions,  \* the working list of _resolve_conflicts, then the kept list
    ci,                \* _resolve_conflicts: index of the next pair
    ei,                \* _process_next_batch: index of the next kept action
    raced,             \* history: objects cancelled by a handler while in the
                       \* tick's snapshot and not yet dispatched
    arg1, arg2, result, \* a direct call of a function or a handler: its
                       \* arguments and what it returned
    threads            \* the frames of the scheduler threads other than the
                       \* one whose frame is pc and the tick's locals

vars == <<objs, actions, action_queue, running, pc, pending_actions, conflicts,
          resolved_actions, ci, ei, raced, arg1, arg2, result, threads>>

engine_vars == <<objs, actions, action_queue, running, pc, pending_actions,
                 conflicts, resolved_actions, ci, ei, raced, threads>>

call_vars == <<arg1, arg2, result>>

tick_locals == <<pending_actions, conflicts, resolved_actions, ci, ei>>

\* CoordinationEngine.__init__ followed by engine.start() of __main__: empty
\* store and queue, the scheduler thread started and about to test the queue.
EngineInit ==
    /\ objs = <<>>
    /\ actions = [i \in Ids |-> 0]
    /\ action_queue = <<>>
    /\ running = TRUE
    /\ pc = "sleep"
    /\ pending_actions = <<>>
    /\ conflicts = <<>>
    /\ resolved_actions = <<>>
    /\ ci = 0
    /\ ei = 0
    /\ raced = {}
    /\ threads = <<>>

\* engine.get_action_status(id)['status'], None for an unknown id.
get_action_status(id) ==
    IF actions[id] = 0 THEN "None" ELSE objs[actions[id]].status

\* The objects of the snapshot that the tick has not dispatched yet.
Undispatched ==
    CASE pc = "resolve" -> Elems(pending_actions)
      [] pc = "execute" -> {resolved_actions[k] : k \in ei..Len(resolved_actions)}
      [] pc = "executing" -> {resolved_actions[k] : k \in (ei + 1)..Len(resolved_actions)}
      [] OTHER -> {}

\* The objects the current tick has set to running so far.
Dispatched ==
    CASE pc = "execute" -> {resolved_actions[k] : k \in 1..(ei - 1)}
      [] pc = "executing" -> {resolved_actions[k] : k \in 1..ei}
      [] pc = "gauge" -> Elems(resolved_actions)
      [] OTHER -> {}

\* ---------------------------------------------------------------- handlers

\* The request bodies POST /actions is driven with: A and B of the
\* specification's first scenario, which conflict, and an action that
\* conflicts with neither.
SubmitRequests ==
    { [type |-> "node_remediation", source |-> "deterministic", priority |-> 5,
       target |-> "node1", confidence |-> DefaultConfidence],
      [type |-> "resource_scaling", source |-> "ai_driven", priority |-> 9,
       target |-> "node1", confidence |-> 9],
      [type |-> "model_inference", source |-> "manual", priority |-> 7,
       target |-> "podX", confidence |-> DefaultConfidence] }

\* CoordinationEngine.submit_action: store under the id, append the id.
submit_action(action) ==
    /\ objs' = Append(objs, action)
    /\ actions' = [actions EXCEPT ![action.id] = Len(objs) + 1]
    /\ action_queue' = Append(action_queue, action.id)

\* POST /actions with a well-formed body.
SubmitAction(id, req) ==
    /\ Len(objs) < MaxObjects
    /\ submit_action(Action(id, req.type, req.source, req.priority, req.target,
                            req.confidence, Len(objs) + 1))
    /\ UNCHANGED <<running, pc, tick_locals, raced, call_vars, threads>>

\* The JSON bodies POST /actions is driven with: a type, a source and a
\* priority inside and outside what the specification admits, no confidence.
PostBodies ==
    { [id |-> i, type |-> t, source |-> s, priority |-> p, target |-> "node1"] :
        i \in Ids, t \in {"node_remediation", "reboot"},
        s \in {"manual", "cron"}, p \in {0, 5, 11} }

\* The handler of POST /actions: ActionType(...) and ActionSource(...) raise
\* ValueError on a value outside the enumeration, which the except clause
\* answers with 400; otherwise the action is constructed and submitted.
PostAction(data) ==
    /\ Len(objs) < MaxObjects
    /\ arg1' = data
    /\ arg2' = None
    /\ IF data.type \in ActionType /\ data.source \in ActionSource
       THEN /\ submit_action(Action(data.id, data.type, data.source, data.priority,
                                    data.target, DefaultConfidence, Len(objs) + 1))
            /\ result' = [code |-> 200, action_id |-> data.id, status |-> "submitted"]
       ELSE /\ result' = [code |-> 400]
            /\ UNCHANGED <<objs, actions, action_queue>>
    /\ UNCHANGED <<running, pc, tick_locals, raced, threads>>

\* The action types trigger_remediation maps the action names to.
action_type_mapping ==
    [scale_deployment |-> "resource_scaling", restart_pod |-> "node_remediation",
     clear_alerts |-> "alert_correlation", run_inference |-> "model_inference",
     scale_up |-> "resource_scaling", scale_down |-> "resource_scaling",
     remediate_node |-> "node_remediation", correlate_alerts |-> "alert_correlation"]

\* The JSON bodies POST /api/v1/remediation/trigger is driven with; "absent"
\* stands for a key the body does not have.  parameters is a JSON object or
\* null, dryRun a JSON boolean; no priority and no confidence.
TriggerBodies ==
    { [incidentId |-> i, action |-> a, parameters |-> p, dryRun |-> d] :
        i \in {"absent", "", "inc1", "inc2"},
        a \in {"absent", "restart_pod", "scale_up", "reboot"},
        p \in {"absent", "object", "null"},
        d \in {"absent", "true", "false"} }

\* not v, for the value data.get returns: None for an absent key.
Falsy(v) == v \in {"absent", ""}

\* The id of the action of a trigger served in the clock second now, the
\* f-string "mcp-{incident_id}-{action_type}-{int(time.time())}".
trigger_action_id(incident_id, action_type, now) ==
    <<"mcp", incident_id, action_type, now>>

\* The ids triggers produce.
TriggerIds ==
    { trigger_action_id(i, a, t) :
        i \in {"inc1", "inc2"}, a \in DOMAIN action_type_mapping, t \in 1..MaxSecond }

\* The clock does not run backwards: now is no earlier than the second of
\* any trigger served before.
ClockReads(now) == \A o \in DOMAIN objs : objs[o].id[4] <= now

\* The handler of POST /api/v1/remediation/trigger.  Unpacking parameters
\* that are not a mapping raises TypeError, which the except clause answers
\* with 500.
trigger_remediation(data, now) ==
    /\ Len(objs) < MaxObjects
    /\ ClockReads(now)
    /\ arg1' = data
    /\ arg2' = now
    /\ IF Falsy(data.incidentId) \/ Falsy(data.action)
       THEN /\ result' = [code |-> 400, status |-> "missing"]
            /\ UNCHANGED <<objs, actions, action_queue>>
       ELSE IF data.action \notin DOMAIN action_type_mapping
       THEN /\ result' = [code |-> 400, status |-> "unsupported"]
            /\ UNCHANGED <<objs, actions, action_queue>>
       ELSE IF data.parameters = "null"
       THEN /\ result' = [code |-> 500, status |-> "error"]
            /\ UNCHANGED <<objs, actions, action_queue>>
       ELSE IF data.dryRun = "true"
       THEN /\ result' = [code |-> 200, status |-> "dry_run_completed"]
            /\ UNCHANGED <<objs, actions, action_queue>>
       ELSE /\ submit_action(Action(trigger_action_id(data.incidentId, data.action, now),
                                    action_type_mapping[data.action], "ai_driven",
                                    TriggerPriority, data.incidentId,
                                    TriggerConfidence, Len(objs) + 1))
            /\ result' = [code |-> 200, status |-> "submitted"]
    /\ UNCHANGED <<running, pc, tick_locals, raced, threads>>

\* What health finds in engine.k8s_client: no client, a client whose
\* list_namespace call returns, a client whose call raises.
K8sClients == {"not_initialized", "connected", "api_call_failed"}

\* GET /health: the overall status and the HTTP code, from engine.running,
\* engine.k8s_client and len(engine.action_queue).  k8s_healthy ends true on
\* each of its three paths.
health(engine_running, k8s_client, queue_length) ==
    LET engine_healthy == engine_running
        k8s_healthy == IF k8s_client = "not_initialized" THEN TRUE
                       ELSE IF k8s_client = "api_call_failed" THEN TRUE
                       ELSE TRUE
        queue_healthy == queue_length < QueueCeiling
        overall_healthy == engine_healthy /\ k8s_healthy /\ queue_healthy
    IN  [status |-> IF overall_healthy THEN "healthy" ELSE "unhealthy",
         code |-> IF overall_healthy THEN 200 ELSE 503,
         queue_status |-> IF queue_healthy THEN "healthy" ELSE "unhealthy",
         queue_length |-> queue_length]

\* get_incidents with > in place of >= in the severity bands.
severity_band_gt(priority) ==
    IF priority > 9 THEN "critical"
    ELSE IF priority > 7 THEN "high"
    ELSE IF priority > 4 THEN "medium"
    ELSE "low"

\* The severity get_incidents derives from the priority.
severity_band(priority) ==
    IF priority >= 9 THEN "critical"
    ELSE IF priority >= 7 THEN "high"
    ELSE IF priority >= 4 THEN "medium"
    ELSE "low"

\* The status filter of get_incidents: TRUE where the loop does not continue.
\* A filter other than 'all', 'active', 'completed' and 'failed' meets no
\* branch and lets every action pass.
status_passes(status_filter, status) ==
    IF status_filter = "all" THEN TRUE
    ELSE IF status_filter = "active" /\ status \notin {"pending", "running"} THEN FALSE
    ELSE IF status_filter = "completed" /\ status # "completed" THEN FALSE
    ELSE IF status_filter = "failed" /\ status # "failed" THEN FALSE
    ELSE TRUE

\* Python's s[a:b] on a list: a negative bound counts from the end, and both
\* are clamped to 0..len(s).
Slice(s, a, b) ==
    LET n == Len(s)
        clamp(x) == IF x < 0 THEN (IF x + n < 0 THEN 0 ELSE x + n)
                    ELSE IF x > n THEN n ELSE x
        lo == clamp(a)
        hi == clamp(b)
    IN  IF lo < hi THEN [k \in 1..(hi - lo) |-> s[lo + k]] ELSE <<>>

\* engine.actions.items(): the stored objects in the order in which their
\* keys were first inserted into the dict.
actions_items ==
    LET firsts == SelectSeq([k \in 1..Len(objs) |-> k],
                            LAMBDA k : \A j \in 1..(k - 1) : objs[j].id # objs[k].id)
    IN  [i \in 1..Len(firsts) |-> actions[objs[firsts[i]].id]]

\* The incident get_incidents builds for a stored object.
incident(o) ==
    [id |-> objs[o].id, severity |-> severity_band(objs[o].priority),
     status |-> objs[o].status, priority |-> objs[o].priority]

\* GET /api/v1/incidents: the incidents of the page and the metadata.
get_incidents(status_filter, severity_filter, limit, offset) ==
    LET kept == SelectSeq(actions_items,
                    LAMBDA o : /\ status_passes(status_filter, objs[o].status)
                               /\ (severity_filter = "all"
                                     \/ severity_band(objs[o].priority) = severity_filter))
        incidents == [k \in 1..Len(kept) |-> incident(kept[k])]
        page == Slice(incidents, offset, offset + limit)
    IN  [incidents |-> page, total |-> Len(incidents), count |-> Len(page),
         offset |-> offset, limit |-> limit]

\* severity_priority_map.get(severity, action.priority) of update_incident.
severity_priority(severity, priority) ==
    CASE severity = "critical" -> 10
      [] severity = "high" -> 8
      [] severity = "medium" -> 5
      [] severity = "low" -> 2
      [] OTHER -> priority

\* status_map.get(data['status']) of update_incident.
status_map(status) ==
    CASE status = "open" -> "pending"
      [] status = "investigating" -> "running"
      [] status = "resolved" -> "completed"
      [] status = "closed" -> "completed"
      [] status = "cancelled" -> "cancelled"
      [] OTHER -> "None"

\* The 'severity' and 'status' fields PUT is driven with ("absent": the key
\* is not in the body).
UpdateSeverities == {"absent", "critical"}

UpdateStatuses == {"absent", "open", "investigating", "resolved", "closed", "cancelled"}

\* What a handler's write of status new to object o does to the history raced.
RacedAfter(o, new) ==
    IF new = "cancelled" /\ o \in Undispatched THEN raced \cup {o}
    ELSE IF new = "cancelled" THEN raced
    ELSE raced \ {o}

\* PUT /api/v1/incidents/<id> on a known id.
UpdateIncident(id, severity, status) ==
    /\ actions[id] # 0
    /\ LET o == actions[id]
           new_status == status_map(status)
           p == IF severity = "absent" THEN objs[o].priority
                ELSE severity_priority(severity, objs[o].priority)
       IN  /\ objs' = [objs EXCEPT ![o].priority = p,
                                   ![o].status = IF new_status # "None" THEN new_status ELSE @,
                                   ![o].completed_at = IF new_status = "completed" THEN TRUE ELSE @]
           /\ raced' = IF new_status # "None" THEN RacedAfter(o, new_status) ELSE raced
    /\ UNCHANGED <<actions, action_queue, running, pc, tick_locals, call_vars, threads>>

\* DELETE /api/v1/incidents/<id> on a known id.
DeleteIncident(id) ==
    /\ actions[id] # 0
    /\ LET o == actions[id]
       IN  /\ objs' = [objs EXCEPT ![o].status = "cancelled", ![o].completed_at = TRUE]
           /\ raced' = RacedAfter(o, "cancelled")
    /\ action_queue' = Remove(action_queue, id)
    /\ UNCHANGED <<actions, running, pc, tick_locals, call_vars, threads>>

\* ------------------------------------------------------ the scheduler thread

\* The list comprehension of _process_next_batch: the objects the store holds
\* for the queued ids, in queue order, that are pending.
PendingSnapshot ==
    LET ids == SelectSeq(action_queue, LAMBDA id : objs[actions[id]].status = "pending")
    IN  [k \in 1..Len(ids) |-> actions[ids[k]]]

\* _process_actions finds the queue non-empty and _process_next_batch takes
\* its snapshot and detects the conflicts in it.  With an empty snapshot the
\* tick returns at once and changes nothing.
TickSnapshot ==
    /\ pc = "sleep"
    /\ running
    /\ action_queue # <<>>
    /\ PendingSnapshot # <<>>
    /\ pending_actions' = PendingSnapshot
    /\ conflicts' = detect_conflicts(objs, PendingSnapshot)
    /\ resolved_actions' = PendingSnapshot
    /\ IF conflicts' # <<>>
       THEN pc' = "resolve" /\ ci' = 1 /\ ei' = 0
       ELSE pc' = "execute" /\ ci' = 0 /\ ei' = 1
    /\ raced' = {}
    /\ UNCHANGED <<objs, actions, action_queue, running, call_vars, threads>>

\* The pass of the loop without the test that both members are still in the
\* working list.
ResolvePair_unguarded(action1, action2) ==
    LET winner == resolve_conflict(objs[action1], objs[action2])
        loser == IF winner = objs[action1] THEN action2 ELSE action1
    IN  /\ resolved_actions' = Remove(resolved_actions, loser)
        /\ objs' = [objs EXCEPT ![loser].status = "cancelled"]

\* One pass of the loop of _resolve_conflicts: for a pair whose two members
\* are in the working list, the loser leaves it and is marked cancelled.
\* When the loop ends on an empty list, the for loop over the kept actions
\* has nothing to run.
ResolvePair(action1, action2) ==
    IF action1 \in Elems(resolved_actions) /\ action2 \in Elems(resolved_actions)
    THEN LET winner == resolve_conflict(objs[action1], objs[action2])
             loser == IF winner = objs[action1] THEN action2 ELSE action1
         IN  /\ resolved_actions' = Remove(resolved_actions, loser)
             /\ objs' = [objs EXCEPT ![loser].status = "cancelled"]
    ELSE UNCHANGED <<resolved_actions, objs>>

ResolveStep ==
    /\ pc = "resolve"
    /\ ResolvePair(conflicts[ci][1], conflicts[ci][2])
    /\ IF ci < Len(conflicts)
       THEN pc' = "resolve" /\ ci' = ci + 1 /\ ei' = ei
       ELSE /\ pc' = IF resolved_actions' = <<>> THEN "gauge" ELSE "execute"
            /\ ci' = 0
            /\ ei' = 1
    /\ UNCHANGED <<actions, action_queue, running, pending_actions, conflicts, raced, call_vars, threads>>

\* _execute_action up to the call of the executor.
ExecuteStart ==
    /\ pc = "execute"
    /\ objs' = [objs EXCEPT ![resolved_actions[ei]].status = "running",
                            ![resolved_actions[ei]].started_at = TRUE]
    /\ pc' = "executing"
    /\ UNCHANGED <<actions, action_queue, running, tick_locals, raced, call_vars, threads>>

\* _execute_action without its try: the executor's exception leaves the for
\* loop of _process_next_batch and reaches the except clause of the loop.
ExecuteFinish_uncaught(outcome) ==
    /\ pc = "executing"
    /\ LET o == resolved_actions[ei]
       IN  IF outcome = "ok"
           THEN /\ objs' = [objs EXCEPT ![o].status = "completed", ![o].completed_at = TRUE]
                /\ action_queue' = Remove(action_queue, objs[o].id)
                /\ IF ei = Len(resolved_actions)
                   THEN pc' = "gauge" /\ ei' = ei
                   ELSE pc' = "execute" /\ ei' = ei + 1
           ELSE /\ objs' = [objs EXCEPT ![o].status = "failed", ![o].completed_at = TRUE]
                /\ action_queue' = action_queue
                /\ pc' = "gauge"
                /\ ei' = ei
    /\ UNCHANGED <<actions, running, pending_actions, conflicts, resolved_actions, ci, raced, call_vars, threads>>

\* _execute_action from the executor's return ("ok") or exception ("raise").
ExecuteFinish(outcome) ==
    /\ pc = "executing"
    /\ LET o == resolved_actions[ei]
       IN  IF outcome = "ok"
           THEN /\ objs' = [objs EXCEPT ![o].status = "completed", ![o].completed_at = TRUE]
                /\ action_queue' = Remove(action_queue, objs[o].id)
           ELSE /\ objs' = [objs EXCEPT ![o].status = "failed", ![o].completed_at = TRUE]
                /\ action_queue' = action_queue
    /\ IF ei = Len(resolved_actions)
       THEN pc' = "gauge" /\ ei' = ei
       ELSE pc' = "execute" /\ ei' = ei + 1
    /\ UNCHANGED <<actions, running, pending_actions, conflicts, resolved_actions, ci, raced, call_vars, threads>>

\* The gauge update that ends _process_next_batch; the locals die with the
\* frame and the thread sleeps.
TickReturn ==
    /\ pc = "gauge"
    /\ pc' = "sleep"
    /\ pending_actions' = <<>>
    /\ conflicts' = <<>>
    /\ resolved_actions' = <<>>
    /\ ci' = 0
    /\ ei' = 0
    /\ raced' = {}
    /\ UNCHANGED <<objs, actions, action_queue, running, call_vars, threads>>

\* The gauge statement raises (it iterates over the store, which a request
\* thread may resize meanwhile): the exception leaves _process_next_batch and
\* is caught by the except clause of _process_actions, which logs, sleeps and
\* goes round the loop.
TickRaise ==
    /\ pc = "gauge"
    /\ pc' = "sleep"
    /\ pending_actions' = <<>>
    /\ conflicts' = <<>>
    /\ resolved_actions' = <<>>
    /\ ci' = 0
    /\ ei' = 0
    /\ raced' = {}
    /\ UNCHANGED <<objs, actions, action_queue, running, call_vars, threads>>

\* The while test of _process_actions finds running false: the thread ends.
LoopExit ==
    /\ pc = "sleep"
    /\ ~running
    /\ pc' = "exited"
    /\ UNCHANGED <<objs, actions, action_queue, running, tick_locals, raced, call_vars, threads>>

\* --------------------------------------------------------- start and stop

\* The frame of a scheduler thread: where it stands and its tick's locals.
Frame(p, pa, cf, ra, c, e) ==
    [pc |-> p, pending_actions |-> pa, conflicts |-> cf, resolved_actions |-> ra,
     ci |-> c, ei |-> e]

\* The frame of the thread at hand.
ThisFrame == Frame(pc, pending_actions, conflicts, resolved_actions, ci, ei)

\* A thread that threading.Thread(target=self._process_actions).start() has
\* just started: about to test the while condition.
NewFrame == Frame("sleep", <<>>, <<>>, <<>>, 0, 0)

\* CoordinationEngine.start: sets running and starts one more thread.
Start ==
    /\ Len(threads) + 1 < MaxThreads
    /\ running' = TRUE
    /\ threads' = Append(threads, NewFrame)
    /\ UNCHANGED <<objs, actions, action_queue, pc, tick_locals, raced, call_vars>>

\* CoordinationEngine.stop: clears running; no thread is joined.
Stop ==
    /\ running
    /\ running' = FALSE
    /\ UNCHANGED <<objs, actions, action_queue, pc, tick_locals, raced, call_vars, threads>>

\* The interpreter hands the processor to another scheduler thread: the
\* frame at hand is put aside and that thread's frame is taken up.
Switch(k) ==
    /\ k \in 1..Len(threads)
    /\ threads' = [threads EXCEPT ![k] = ThisFrame]
    /\ pc' = threads[k].pc
    /\ pending_actions' = threads[k].pending_actions
    /\ conflicts' = threads[k].conflicts
    /\ resolved_actions' = threads[k].resolved_actions
    /\ ci' = threads[k].ci
    /\ ei' = threads[k].ei
    /\ UNCHANGED <<objs, actions, action_queue, running, raced, call_vars>>

\* ------------------------------------------------------------ specifications

NotCalled == [called |-> FALSE]

Init ==
    /\ EngineInit
    /\ arg1 = None
    /\ arg2 = None
    /\ result = NotCalled

Next ==
    \/ \E id \in Ids, req \in SubmitRequests : SubmitAction(id, req)
    \/ \E id \in Ids, severity \in UpdateSeverities, status \in UpdateStatuses :
          UpdateIncident(id, severity, status)
    \/ \E id \in Ids : DeleteIncident(id)
    \/ TickSnapshot
    \/ ResolveStep
    \/ ExecuteStart
    \/ ExecuteFinish("ok")
    \/ TickReturn

\* The engine as __main__ runs it: one scheduler thread, the handlers, and
\* the placeholder executors of the source, which return.
Spec == Init /\ [][Next]_vars

\* The actions resolve_conflict is called on as a function.
ResolverInputs(id, created_at) ==
    { Action(id, t, s, p, g, c, created_at) :
        t \in ActionType, s \in ActionSource, p \in 1..MaxPriority,
        g \in Targets, c \in Confidences }

InitResolve ==
    /\ EngineInit
    /\ arg1 \in ResolverInputs("a1", 1)
    /\ arg2 \in ResolverInputs("a2", 2)
    /\ result = NotCalled

ResolveCall ==
    /\ result = NotCalled
    /\ result' = resolve_conflict(arg1, arg2)
    /\ UNCHANGED <<engine_vars, arg1, arg2>>

NextResolve == ResolveCall

\* resolve_conflict called once on every ordered pair of inputs.
SpecResolve == InitResolve /\ [][NextResolve]_vars

\* The ids of the actions of a batch, in submission order.
BatchIds == <<"a1", "a2", "a3", "a4">>

\* What the actions of a batch are drawn from: the three sources, an
\* ai_driven confidence below and one above the threshold, two priorities,
\* and three placements: node1 and podX with conflicting types, and a second
\* type on podX that conflicts with the first placement neither by target nor
\* by type.
BatchPlacements ==
    { <<"node_remediation", "node1">>, <<"resource_scaling", "podX">>,
      <<"model_inference", "podX">> }

BatchRequests ==
    { [type |-> pl[1], target |-> pl[2], source |-> sc[1], priority |-> p,
       confidence |-> sc[2]] :
        pl \in BatchPlacements,
        sc \in { <<"deterministic", DefaultConfidence>>, <<"manual", DefaultConfidence>>,
                 <<"ai_driven", 4>>, <<"ai_driven", 9>> },
        p \in 1..2 }

\* The store after n calls of submit_action with distinct ids.
InitBatch ==
    \E n \in 1..MaxBatch : \E reqs \in [1..n -> BatchRequests] :
        /\ objs = [k \in 1..n |-> Action(BatchIds[k], reqs[k].type, reqs[k].source,
                                         reqs[k].priority, reqs[k].target,
                                         reqs[k].confidence, k)]
        /\ actions = [i \in {BatchIds[k] : k \in 1..n} |->
                        CHOOSE k \in 1..n : BatchIds[k] = i]
        /\ action_queue = [k \in 1..n |-> BatchIds[k]]
        /\ running = TRUE
        /\ pc = "sleep"
        /\ pending_actions = <<>>
        /\ conflicts = <<>>
        /\ resolved_actions = <<>>
        /\ ci = 0
        /\ ei = 0
        /\ raced = {}
        /\ threads = <<>>
        /\ arg1 = None
        /\ arg2 = None
        /\ result = NotCalled

NextBatch ==
    \/ TickSnapshot
    \/ ResolveStep
    \/ ExecuteStart
    \/ ExecuteFinish("ok")
    \/ TickReturn

\* One tick of the scheduler thread over a queue of freshly submitted
\* actions, no handler running meanwhile.
SpecBatch == InitBatch /\ [][NextBatch]_vars

NextWorkers ==
    \/ \E id \in Ids, req \in SubmitRequests : SubmitAction(id, req)
    \/ Start
    \/ Stop
    \/ \E k \in 1..(MaxThreads - 1) : Switch(k)
    \/ LoopExit
    \/ TickSnapshot
    \/ ResolveStep
    \/ ExecuteStart
    \/ ExecuteFinish("ok")
    \/ TickReturn

\* The engine under calls of start and stop after the start of __main__:
\* every thread that start has started runs _process_actions.
SpecWorkers == Init /\ [][NextWorkers]_vars

\* A step of the scheduler thread at hand.
TickStep ==
    \/ TickSnapshot
    \/ ResolveStep
    \/ ExecuteStart
    \/ ExecuteFinish("ok")
    \/ ExecuteFinish("raise")
    \/ TickReturn
    \/ TickRaise

NextRaise ==
    \/ \E id \in Ids, req \in SubmitRequests : SubmitAction(id, req)
    \/ Stop
    \/ LoopExit
    \/ TickSnapshot
    \/ ResolveStep
    \/ ExecuteStart
    \/ ExecuteFinish("ok")
    \/ ExecuteFinish("raise")
    \/ TickReturn
    \/ TickRaise

\* The engine with executors that may raise and a tick that may raise, under
\* submissions and stop.  The scheduler thread is scheduled again and again,
\* its sleep ends and an executor returns or raises.
SpecRaise == Init /\ [][NextRaise]_vars /\ WF_vars(TickStep)

\* The actions of the specification's second scenario and their like: manual
\* actions of the two types that conflict with each other, on three targets.
ScenarioRequests ==
    { [type |-> t, target |-> g, source |-> "manual", priority |-> p,
       confidence |-> DefaultConfidence] :
        t \in {"model_inference", "alert_correlation"},
        g \in {"podX", "podY", "node1"},
        p \in {3, 8} }

\* The store after n calls of submit_action with distinct ids.
InitScenario ==
    \E n \in 1..MaxBatch : \E reqs \in [1..n -> ScenarioRequests] :
        /\ objs = [k \in 1..n |-> Action(BatchIds[k], reqs[k].type, reqs[k].source,
                                         reqs[k].priority, reqs[k].target,
                                         reqs[k].confidence, k)]
        /\ actions = [i \in {BatchIds[k] : k \in 1..n} |->
                        CHOOSE k \in 1..n : BatchIds[k] = i]
        /\ action_queue = [k \in 1..n |-> BatchIds[k]]
        /\ running = TRUE
        /\ pc = "sleep"
        /\ pending_actions = <<>>
        /\ conflicts = <<>>
        /\ resolved_actions = <<>>
        /\ ci = 0
        /\ ei = 0
        /\ raced = {}
        /\ threads = <<>>
        /\ arg1 = None
        /\ arg2 = None
        /\ result = NotCalled

\* One tick over a queue of freshly submitted manual actions.
SpecScenario == InitScenario /\ [][NextBatch]_vars

NextPost ==
    \/ \E data \in PostBodies : PostAction(data)
    \/ TickSnapshot
    \/ ResolveStep
    \/ ExecuteStart
    \/ ExecuteFinish("ok")
    \/ TickReturn

\* The engine under POST /actions with bodies of any content.
SpecPost == Init /\ [][NextPost]_vars

\* An engine that was started, and perhaps stopped, whose queue has the
\* length arg1 says and whose Kubernetes client is as arg1 says.
InitHealth ==
    /\ objs = <<>>
    /\ actions = [i \in Ids |-> 0]
    /\ action_queue = <<>>
    /\ running \in BOOLEAN
    /\ pc = "sleep"
    /\ pending_actions = <<>>
    /\ conflicts = <<>>
    /\ resolved_actions = <<>>
    /\ ci = 0
    /\ ei = 0
    /\ raced = {}
    /\ threads = <<>>
    /\ arg1 \in [queue_length : 0..MaxQueueLength, k8s_client : K8sClients]
    /\ arg2 = None
    /\ result = NotCalled

HealthCall ==
    /\ result = NotCalled
    /\ result' = health(running, arg1.k8s_client, arg1.queue_length)
    /\ UNCHANGED <<engine_vars, arg1, arg2>>

NextHealth == HealthCall

\* health called once at every queue length, with the engine running or not.
SpecHealth == InitHealth /\ [][NextHealth]_vars

\* The status and priority of the actions in the store when get_incidents is
\* called: each status, and priorities on and beside the band boundaries.
StoreKinds ==
    { <<"pending", 9>>, <<"pending", 4>>, <<"running", 7>>, <<"running", 3>>,
      <<"completed", 9>>, <<"completed", 3>>, <<"failed", 7>>, <<"cancelled", 4>> }

\* The query arguments get_incidents is called with.
ListArgs ==
    [status : {"all", "active", "completed", "failed"},
     severity : {"all", "low", "medium", "high", "critical"},
     limit : {-1, 0, 1, 2},
     offset : {-1, 0, 1, 2}]

\* A stored action that has come to the given status: a running one was
\* started, a completed or failed one was started and finished, a cancelled
\* one lost a conflict.
StoredAction(id, kind, created_at) ==
    [Action(id, "alert_correlation", "manual", kind[2], "cluster", DefaultConfidence, created_at)
        EXCEPT !.status = kind[1],
               !.started_at = kind[1] \in {"running", "completed", "failed"},
               !.completed_at = kind[1] \in {"completed", "failed"}]

\* The engine after n submissions with distinct ids and the ticks and updates
\* that brought the actions to their statuses; the completed ones have left
\* the queue.
InitList ==
    \E n \in 0..MaxStore : \E kinds \in [1..n -> StoreKinds] :
        /\ objs = [k \in 1..n |-> StoredAction(BatchIds[k], kinds[k], k)]
        /\ actions = [i \in {BatchIds[k] : k \in 1..n} |->
                        CHOOSE k \in 1..n : BatchIds[k] = i]
        /\ action_queue = SelectSeq([k \in 1..n |-> BatchIds[k]],
                                    LAMBDA i : \E k \in 1..n :
                                        BatchIds[k] = i /\ kinds[k][1] # "completed")
        /\ running = TRUE
        /\ pc = "sleep"
        /\ pending_actions = <<>>
        /\ conflicts = <<>>
        /\ resolved_actions = <<>>
        /\ ci = 0
        /\ ei = 0
        /\ raced = {}
        /\ threads = <<>>
        /\ arg1 \in ListArgs
        /\ arg2 = None
        /\ result = NotCalled

ListCall ==
    /\ result = NotCalled
    /\ result' = get_incidents(arg1.status, arg1.severity, arg1.limit, arg1.offset)
    /\ UNCHANGED <<engine_vars, arg1, arg2>>

NextList == ListCall

\* get_incidents called once on every store and every query.
SpecList == InitList /\ [][NextList]_vars

\* The series of the specification's fourth scenario.
ScenarioSeries == <<10, 10, 10, 10, 95>>

\* The series the analysis is driven with: every series of up to MaxPoints
\* points at the two levels of the scenario.
SeriesInputs == UNION {[1..n -> {10, 95}] : n \in 0..MaxPoints}

\* A series that holds a string among its values.
MalformedMetric == [name |-> "bad", values |-> <<10, 10, 10>>, numeric |-> FALSE]

\* A second series with one outlier the statistical model flags.
SpikeMetric ==
    [name |-> "mem", values |-> <<10, 10, 10, 10, 10, 10, 10, 10, 10, 95>>,
     numeric |-> TRUE]

\* The calls of the ensemble: the metric "cpu" alone, followed by the spike
\* or by the malformed series; the engine's own list of models or one with an
\* instance of the base class before or after the statistical model; no
\* model names or a name in capitals.
AnalyzeInputs ==
    { [metrics |-> <<[name |-> "cpu", values |-> v, numeric |-> TRUE]>> \o more,
       models |-> ms, model_names |-> names] :
        v \in SeriesInputs,
        more \in {<<>>, <<SpikeMetric>>, <<MalformedMetric>>},
        ms \in {<<"Statistical">>, <<"Custom", "Statistical">>, <<"Statistical", "Custom">>},
        names \in {<<>>, <<"STATISTICAL">>} }

InitAnalyze ==
    /\ EngineInit
    /\ arg1 \in AnalyzeInputs
    /\ arg2 = None
    /\ result = NotCalled

AnalyzeCall ==
    /\ result = NotCalled
    /\ result' = detect_anomalies(arg1.models, arg1.metrics, arg1.model_names)
    /\ UNCHANGED <<engine_vars, arg1, arg2>>

NextAnalyze == AnalyzeCall

\* The ensemble called once on every input.
SpecAnalyze == InitAnalyze /\ [][NextAnalyze]_vars

\* A step of the scheduler thread with an executor that returns.
TickStepReturning ==
    \/ TickSnapshot
    \/ ResolveStep
    \/ ExecuteStart
    \/ ExecuteFinish("ok")
    \/ TickReturn

\* The engine of Spec with a loop that keeps running: the scheduler thread
\* is scheduled again and again, its sleep ends and every executor call
\* returns.
SpecLive == Init /\ [][Next]_vars /\ WF_vars(TickStepReturning)

\* What the actions of a batch handed to conflict resolution are drawn from:
\* the three placements, a deterministic and a confident ai_driven source,
\* and two priorities.
EliminationRequests ==
    { [type |-> pl[1], target |-> pl[2], source |-> sc[1], priority |-> p,
       confidence |-> sc[2]] :
        pl \in BatchPlacements,
        sc \in { <<"deterministic", DefaultConfidence>>, <<"ai_driven", 9>> },
        p \in 1..2 }

\* The store after n calls of submit_action with distinct ids.
InitElimination ==
    \E n \in 1..MaxBatch : \E reqs \in [1..n -> EliminationRequests] :
        /\ objs = [k \in 1..n |-> Action(BatchIds[k], reqs[k].type, reqs[k].source,
                                         reqs[k].priority, reqs[k].target,
                                         reqs[k].confidence, k)]
        /\ actions = [i \in {BatchIds[k] : k \in 1..n} |->
                        CHOOSE k \in 1..n : BatchIds[k] = i]
        /\ action_queue = [k \in 1..n |-> BatchIds[k]]
        /\ running = TRUE
        /\ pc = "sleep"
        /\ pending_actions = <<>>
        /\ conflicts = <<>>
        /\ resolved_actions = <<>>
        /\ ci = 0
        /\ ei = 0
        /\ raced = {}
        /\ threads = <<>>
        /\ arg1 = None
        /\ arg2 = None
        /\ result = NotCalled

\* One tick over a queue of freshly submitted actions that conflict by
\* target, by type or not at all.
SpecElimination == InitElimination /\ [][NextBatch]_vars

\* POST /actions with a well-formed body, for a queue of up to MaxBatch
\* entries.
SubmitToBatch(id, req) ==
    /\ Len(objs) < MaxBatch
    /\ submit_action(Action(id, req.type, req.source, req.priority, req.target,
                            req.confidence, Len(objs) + 1))
    /\ UNCHANGED <<running, pc, tick_locals, raced, call_vars, threads>>

NextResubmit ==
    \/ \E id \in Ids, req \in SubmitRequests : SubmitToBatch(id, req)
    \/ TickSnapshot
    \/ ResolveStep
    \/ ExecuteStart
    \/ ExecuteFinish("ok")
    \/ TickReturn

\* The engine under up to MaxBatch submissions, an id submitted again
\* included, and the ticks of one scheduler thread.
SpecResubmit == Init /\ [][NextResubmit]_vars

\* The engine before any trigger: the store has no action under any id.
InitTrigger ==
    /\ objs = <<>>
    /\ actions = [i \in TriggerIds |-> 0]
    /\ action_queue = <<>>
    /\ running = TRUE
    /\ pc = "sleep"
    /\ pending_actions = <<>>
    /\ conflicts = <<>>
    /\ resolved_actions = <<>>
    /\ ci = 0
    /\ ei = 0
    /\ raced = {}
    /\ threads = <<>>
    /\ arg1 = None
    /\ arg2 = None
    /\ result = NotCalled

NextTrigger ==
    \E data \in TriggerBodies, now \in 1..MaxSecond : trigger_remediation(data, now)

\* The engine under remediation triggers with bodies of any content.
SpecTrigger == InitTrigger /\ [][NextTrigger]_vars

\* The batches detect_conflicts is called on as a function: up to MaxBatch
\* actions of every type on either target.
DetectInputs ==
    UNION { [1..n -> ActionType \X Targets] : n \in 0..MaxBatch }

InitDetect ==
    /\ EngineInit
    /\ \E b \in DetectInputs :
           arg1 = [k \in 1..Len(b) |->
                      Action(BatchIds[k], b[k][1], "deterministic", 1, b[k][2],
                             DefaultConfidence, k)]
    /\ arg2 = None
    /\ result = NotCalled

\* conflict_resolver.detect_conflicts(arg1); the pairs are given by the
\* positions of their members in the batch.
DetectCall ==
    /\ result = NotCalled
    /\ result' = [conflicts |-> detect_conflicts(arg1, [k \in 1..Len(arg1) |-> k])]
    /\ UNCHANGED <<engine_vars, arg1, arg2>>

NextDetect == DetectCall

SpecDetect == InitDetect /\ [][NextDetect]_vars

\* The target on which an executor call never returns.
HangingTarget == "node1"

Hangs(o) == objs[o].target = HangingTarget

\* The executor returns, which it does on every target but the hanging one.
ExecuteReturns ==
    /\ pc = "executing"
    /\ ~Hangs(resolved_actions[ei])
    /\ ExecuteFinish("ok")

NextHang ==
    \/ TickSnapshot
    \/ ResolveStep
    \/ ExecuteStart
    \/ ExecuteReturns
    \/ TickReturn

\* One tick over a queue of freshly submitted actions where the executor
\* call on one target never returns and every other call does.
SpecHang == InitBatch /\ [][NextHang]_vars /\ WF_vars(NextHang)

\* -------------------------------------------------------------- properties

LowConfidence(a) == a.source = "ai_driven" /\ a.confidence < ConfidenceThreshold

\* One of the two is deterministic, the other ai_driven, on one target.
DeterministicAiPair(a, b) ==
    /\ a.target = b.target
    /\ \/ a.source = "deterministic" /\ b.source = "ai_driven"
       \/ b.source = "deterministic" /\ a.source = "ai_driven"

NoDuplicates(s) == \A i, j \in 1..Len(s) : s[i] = s[j] => i = j

Batch == Elems(pending_actions)

Kept == Elems(resolved_actions)

\* C1: when a tick has finished, every id still in action_queue refers to an
\* action whose status is pending (the ids of the actions the tick cancelled
\* or completed have left the queue).
C1_QueueHoldsOnlyPendingAfterTick ==
    pc = "sleep" =>
        \A k \in 1..Len(action_queue) : objs[actions[action_queue[k]]].status = "pending"

\* C2: once an action's status is completed, failed or cancelled, no step
\* changes it (so get(id) keeps reporting it).
C2_TerminalIsAbsorbing ==
    [][\A o \in 1..Len(objs) :
          objs[o].status \in Terminal => objs'[o].status = objs[o].status]_vars

\* C3: no step replaces the action the store holds for an id, and no id
\* occurs twice in action_queue.
C3_SubmitNeverReplaces ==
    [][/\ \A id \in Ids : actions[id] # 0 => actions'[id] = actions[id]
       /\ NoDuplicates(action_queue')]_vars

\* C4 as claimed: at the end of a tick, of every two actions of its batch
\* with one target, one deterministic and one ai_driven, the ai_driven one
\* was cancelled and not executed and the deterministic one was executed.
C4_DeterministicBeatsAiInBatch ==
    pc = "gauge" =>
        \A d, a \in Batch :
            (/\ objs[d].target = objs[a].target
             /\ objs[d].source = "deterministic"
             /\ objs[a].source = "ai_driven")
            => /\ a \notin Kept
               /\ objs[a].status = "cancelled"
               /\ d \in Kept
               /\ objs[d].status = "completed"

\* d and a stand once each in the batch and no other entry of it conflicts
\* with d or with a.
Uncontested(d, a) ==
    /\ Cardinality({k \in 1..Len(pending_actions) : pending_actions[k] \in {d, a}}) = 2
    /\ \A o \in Batch \ {d, a} :
          /\ ~actions_conflict(objs[o], objs[d])
          /\ ~actions_conflict(objs[o], objs[a])

\* C4 as amended: when no other entry of the batch conflicts with either of
\* the two, then from the end of conflict resolution on the ai_driven one is
\* out of the kept list and cancelled, never running, and the deterministic
\* one is kept; at the end of the tick the deterministic one is completed.
C4_DeterministicBeatsAiUncontested ==
    \A d, a \in Batch :
        (/\ objs[d].target = objs[a].target
         /\ objs[d].source = "deterministic"
         /\ objs[a].source = "ai_driven"
         /\ Uncontested(d, a))
        => /\ objs[a].status # "running"
           /\ pc \in {"execute", "executing", "gauge"} =>
                 /\ a \notin Kept
                 /\ objs[a].status = "cancelled"
                 /\ d \in Kept
           /\ pc = "gauge" => objs[d].status = "completed"

\* A tick has ended on a batch of three: a deterministic action, an ai_driven
\* one of higher priority on the same target, and a bystander.
C4_Witness ==
    /\ pc = "gauge"
    /\ Len(pending_actions) = 3
    /\ \E d, a \in Batch :
          /\ objs[d].target = objs[a].target
          /\ objs[d].source = "deterministic"
          /\ objs[a].source = "ai_driven"
          /\ objs[a].priority > objs[d].priority
          /\ Uncontested(d, a)
          /\ objs[a].status = "cancelled"
          /\ objs[d].status = "completed"

LowConfidenceOutcome(a, b) ==
    IF \/ a.target = b.target /\ b.source = "deterministic"
       \/ b.priority >= a.priority
    THEN b ELSE a

C6_DeterministicWinsSameTarget ==
    (result # NotCalled /\ arg1.target = arg2.target) =>
        /\ (arg1.source = "deterministic" /\ arg2.source # "deterministic") => result = arg1
        /\ (arg2.source = "deterministic" /\ arg1.source # "deterministic") => result = arg2

\* C6 as amended: on one target the deterministic action is returned against
\* an ai_driven one whatever the priorities and the order; against a manual
\* one the higher priority is returned, and on equal priorities the second
\* argument.
C6_DeterministicWinsAgainstAi ==
    (result # NotCalled /\ arg1.target = arg2.target) =>
        /\ (arg1.source = "deterministic" /\ arg2.source = "ai_driven") => result = arg1
        /\ (arg2.source = "deterministic" /\ arg1.source = "ai_driven") => result = arg2
        /\ ({arg1.source, arg2.source} = {"deterministic", "manual"}) =>
               result = IF arg1.priority > arg2.priority THEN arg1 ELSE arg2

\* resolve was called with the deterministic action second and an ai_driven
\* first argument of higher priority, and returned the deterministic one.
C6_Witness ==
    /\ result # NotCalled
    /\ arg1.target = arg2.target
    /\ arg1.source = "ai_driven"
    /\ arg2.source = "deterministic"
    /\ arg1.priority > arg2.priority
    /\ result = arg2

\* The pair the loop of _resolve_conflicts is at is resolved by the default
\* on equal priorities: no rule decides it.
TieAtResolve ==
    /\ pc = "resolve"
    /\ conflicts[ci][1] \in Kept
    /\ conflicts[ci][2] \in Kept
    /\ LET a == objs[conflicts[ci][1]]
           b == objs[conflicts[ci][2]]
       IN  /\ a.priority = b.priority
           /\ ~DeterministicAiPair(a, b)
           /\ ~LowConfidence(a)
           /\ ~LowConfidence(b)

\* C7 as claimed: on such a tie the earlier action of the pair stays in the
\* working list and the later one leaves it and is cancelled.
C7_TieKeepsEarlier ==
    [][TieAtResolve =>
          /\ resolved_actions' = Remove(resolved_actions, conflicts[ci][2])
          /\ objs'[conflicts[ci][2]].status = "cancelled"
          /\ objs'[conflicts[ci][1]].status = objs[conflicts[ci][1]].status]_vars

\* C7 as amended: on such a tie the later action of the pair stays and the
\* earlier one leaves the working list and is cancelled.
C7_TieKeepsLater ==
    [][TieAtResolve =>
          /\ resolved_actions' = Remove(resolved_actions, conflicts[ci][1])
          /\ objs'[conflicts[ci][1]].status = "cancelled"
          /\ objs'[conflicts[ci][2]].status = objs[conflicts[ci][2]].status]_vars

\* A tick has ended on two manual actions of equal priority on one target:
\* the first is cancelled, the second was kept and is completed.
C7_Witness ==
    /\ pc = "gauge"
    /\ Len(pending_actions) = 2
    /\ LET a == objs[pending_actions[1]]
           b == objs[pending_actions[2]]
       IN  /\ a.created_at < b.created_at
           /\ a.target = b.target
           /\ a.source = "manual"
           /\ b.source = "manual"
           /\ a.priority = b.priority
           /\ a.status = "cancelled"
           /\ b.status = "completed"
    /\ resolved_actions = <<pending_actions[2]>>

\* C8: with different priorities, the two not being a deterministic/ai_driven
\* pair on one target and neither a low-confidence ai_driven action, resolve
\* returns the action of higher priority.
C8_HigherPriorityWins ==
    (/\ result # NotCalled
     /\ arg1.priority # arg2.priority
     /\ ~DeterministicAiPair(arg1, arg2)
     /\ ~LowConfidence(arg1)
     /\ ~LowConfidence(arg2))
    => result = IF arg1.priority > arg2.priority THEN arg1 ELSE arg2

\* resolve was called on a deterministic action and a manual one of higher
\* priority on the same target, and returned the manual one.
C8_Witness ==
    /\ result # NotCalled
    /\ arg1.target = arg2.target
    /\ arg1.source = "deterministic"
    /\ arg2.source = "manual"
    /\ arg1.priority < arg2.priority
    /\ result = arg2

\* C9: an action a handler cancelled while it was in the tick's snapshot and
\* not yet dispatched is not dispatched by that tick and stays cancelled.
C9_RacedCancelIsSkipped ==
    \A o \in raced : o \notin Dispatched /\ objs[o].status = "cancelled"

\* C10: an action that is cancelled and is not in the snapshot of a tick in
\* progress is still reported cancelled after every step: no tick sets it to
\* running and get(id) keeps reporting cancelled.
C10_CancelledBeforeSnapshotStays ==
    [][\A id \in Ids :
          (get_action_status(id) = "cancelled" /\ actions[id] \notin Batch) =>
              get_action_status(id)' = "cancelled"]_vars

\* The frames of all the scheduler threads started so far.
AllFrames == <<ThisFrame>> \o threads

\* The threads that are inside _process_next_batch.
InTick == {k \in 1..Len(AllFrames) : AllFrames[k].pc \notin {"sleep", "exited"}}

\* The threads whose loop has not ended.
Workers == {k \in 1..Len(AllFrames) : AllFrames[k].pc # "exited"}

\* C11: while the engine is running there is at most one scheduler thread
\* whose loop has not ended, at most one thread is inside a tick, and the
\* action a tick dispatches has never been dispatched before.
C11_OneWorkerDispatchesOnce ==
    [][/\ running' => Cardinality(Workers') <= 1
       /\ Cardinality(InTick') <= 1
       /\ (pc = "execute" /\ pc' = "executing") =>
              ~objs[resolved_actions[ei]].started_at]_vars

\* The status changes the engine is specified to make, as <<from, to>>.
LegalTransitions ==
    { <<"pending", "running">>, <<"running", "completed">>, <<"running", "failed">>,
      <<"pending", "cancelled">>, <<"pending", "completed">>,
      <<"running", "cancelled">> }

\* The step is one of the scheduler thread inside _execute_action.
ExecuteStep == (pc = "execute" /\ pc' = "executing") \/ pc = "executing"

\* C12: every change of an action's status is pending->running or
\* running->completed/failed, made by the tick's _execute_action, or
\* pending->cancelled, or a change of a pending or running action to
\* cancelled or completed; none sets running outside a tick, none goes back
\* to pending.
C12_OnlyLegalTransitions ==
    [][\A o \in 1..Len(objs) :
          objs'[o].status # objs[o].status =>
              /\ <<objs[o].status, objs'[o].status>> \in LegalTransitions
              /\ objs'[o].status \in {"running", "failed"} => ExecuteStep]_vars

\* The executor of the action at hand raises in this step.
ExecutorRaises == pc = "executing" /\ objs'[resolved_actions[ei]].status = "failed"

\* When the executor raises, that action alone changes and the tick goes on
\* to the next kept action, or to the gauge after the last one.
RaiseIsContained ==
    ExecutorRaises =>
        /\ \A o \in 1..Len(objs) : o # resolved_actions[ei] => objs'[o] = objs[o]
        /\ action_queue' = action_queue
        /\ IF ei < Len(resolved_actions)
           THEN pc' = "execute" /\ ei' = ei + 1
           ELSE pc' = "gauge"

\* The loop ends only where its while test finds running false.
LoopEndsOnlyWhenStopped ==
    (pc # "exited" /\ pc' = "exited") => (pc = "sleep" /\ ~running)

\* At the end of a tick every kept action was executed.
AllKeptExecuted ==
    pc' = "gauge" =>
        \A k \in 1..Len(resolved_actions') :
            objs'[resolved_actions'[k]].status \in {"completed", "failed"}

\* C13: when the executor raises for a kept action, that action becomes
\* failed, no other action changes, and the tick goes on to the next kept
\* action; the loop ends only where its while test finds running false; at
\* the end of a tick every kept action was executed; and as long as running
\* stays set, an action that is pending in the store leaves pending.
C13_RaiseFailsOnlyThatAction ==
    /\ [][RaiseIsContained /\ LoopEndsOnlyWhenStopped /\ AllKeptExecuted]_vars
    /\ ([]running) =>
           (\A id \in Ids : (get_action_status(id) = "pending") ~>
                                 (get_action_status(id) # "pending"))

\* A tick has ended on a batch of two kept actions: the executor raised for
\* the first, which is failed, and the second was executed and is completed.
C13_Witness ==
    /\ pc = "gauge"
    /\ Len(resolved_actions) = 2
    /\ objs[resolved_actions[1]].status = "failed"
    /\ objs[resolved_actions[2]].status = "completed"
    /\ running

\* C14: a kept action of a batch whose own executor call returns reaches a
\* terminal status, also when the executor call of another kept action of
\* the batch never returns.
C14_HangDoesNotStallOthers ==
    \A o \in 1..MaxBatch :
        (o <= Len(objs) /\ pc = "execute" /\ o \in Kept /\ ~Hangs(o))
            ~> (o <= Len(objs) /\ objs[o].status \in Terminal)

\* The two types are one of the pairs that conflict.
ConflictingTypePair(t, u) ==
    {t, u} \in {{"node_remediation", "resource_scaling"},
                {"model_inference", "alert_correlation"}}

\* No two actions of the tick's batch have one target or a conflicting pair
\* of types.
BatchIsConflictFree ==
    \A i, j \in 1..Len(pending_actions) :
        i < j => /\ objs[pending_actions[i]].target # objs[pending_actions[j]].target
                 /\ ~ConflictingTypePair(objs[pending_actions[i]].type,
                                         objs[pending_actions[j]].type)

\* C15: in a tick whose batch is free of conflicts no action of the batch is
\* cancelled, and at the end of the tick every one of them is completed and
\* its id is out of the queue.
C15_ConflictFreeBatchCompletes ==
    (pc \in {"resolve", "execute", "executing", "gauge"} /\ BatchIsConflictFree) =>
        /\ conflicts = <<>>
        /\ \A o \in Batch : objs[o].status # "cancelled"
        /\ pc = "gauge" =>
              \A o \in Batch : /\ objs[o].status = "completed"
                                /\ objs[o].completed_at
                                /\ objs[o].id \notin Elems(action_queue)

\* A tick has ended on a batch of three actions on three targets: all three
\* are completed and the queue is empty.
C15_Witness ==
    /\ pc = "gauge"
    /\ Len(pending_actions) = 3
    /\ BatchIsConflictFree
    /\ \A o \in Batch : objs[o].status = "completed"
    /\ action_queue = <<>>

\* C16: a PUT whose status maps to cancelled or completed leaves the action
\* with completed_at stamped and its id out of action_queue.
C16_TerminalUpdateLeavesQueue ==
    [][\A id \in Ids, severity \in UpdateSeverities :
          \A status \in {"resolved", "closed", "cancelled"} :
              UpdateIncident(id, severity, status) =>
                  /\ objs'[actions[id]].status = status_map(status)
                  /\ objs'[actions[id]].completed_at
                  /\ id \notin Elems(action_queue')]_vars

\* DELETE is called on an id whose action is completed, failed or cancelled.
DeleteOfTerminal(id) ==
    /\ actions[id] # 0
    /\ objs[actions[id]].status \in Terminal
    /\ DeleteIncident(id)

\* C17: DELETE on an action that is completed, failed or cancelled leaves
\* its status and completed_at as they are.
C17_DeleteRejectsTerminal ==
    [][\A id \in Ids :
          DeleteOfTerminal(id) =>
              /\ objs'[actions[id]].status = objs[actions[id]].status
              /\ objs'[actions[id]].completed_at = objs[actions[id]].completed_at]_vars

\* The body is one the specification admits: type and source of the closed
\* enumerations, priority in 1..10.
ValidBody(data) ==
    /\ data.type \in ActionType
    /\ data.source \in ActionSource
    /\ data.priority \in 1..10

\* C18: a POST whose body is not admitted is answered 400 and changes neither
\* store nor queue, and after every step every action ever stored has a
\* priority in 1..10.
C18_InvalidPostIsRejected ==
    [][/\ \A data \in PostBodies :
             (PostAction(data) /\ ~ValidBody(data)) =>
                 /\ result'.code = 400
                 /\ UNCHANGED <<objs, actions, action_queue>>
       /\ \A o \in 1..Len(objs') : objs'[o].priority \in 1..10]_vars

\* C19: health answers unhealthy exactly when the queue length exceeds 100
\* or running is false; at a length of exactly 100 with running set it
\* answers healthy.
C19_UnhealthyIffOverCeilingOrStopped ==
    result # NotCalled =>
        (result.status = "unhealthy" <=> (arg1.queue_length > 100 \/ ~running))

\* The status classes of the list operation.
InStatusClass(class, status) ==
    CASE class = "all" -> TRUE
      [] class = "active" -> status \in {"pending", "running"}
      [] class = "completed" -> status = "completed"
      [] class = "failed" -> status = "failed"

\* The severity band of a priority.
Band(priority) ==
    CASE priority >= 9 -> "critical"
      [] priority \in 7..8 -> "high"
      [] priority \in 4..6 -> "medium"
      [] OTHER -> "low"

\* The stored actions that match both filters of the call, in submission
\* order (the order of created_at).
Matching ==
    SelectSeq([k \in 1..Len(objs) |-> k],
              LAMBDA o : /\ InStatusClass(arg1.status, objs[o].status)
                         /\ arg1.severity \in {"all", Band(objs[o].priority)})

ScenarioCall ==
    /\ result # NotCalled
    /\ arg1.metrics = <<[name |-> "cpu", values |-> ScenarioSeries, numeric |-> TRUE]>>
    /\ arg1.models = <<"Statistical">>

\* C21 as claimed: on the series [10,10,10,10,95] the last point and no
\* other is flagged, and total_anomalies is 1.
C21_ScenarioFlagsLastPoint ==
    ScenarioCall =>
        /\ result.total_anomalies = 1
        /\ Len(result.anomalies) = 1
        /\ result.anomalies[1].point = 5

\* C21 as amended: on the series [10,10,10,10,95] no point is flagged
\* (the z-score of the last point is 1.79), total_anomalies is 0 and the
\* ensemble confidence is 0.5; and whatever the series, a flagged point has
\* a z-score magnitude above 2.5, which no point of a series of fewer than
\* nine points has.
C21_ScenarioFlagsNothing ==
    /\ ScenarioCall =>
           /\ result.total_anomalies = 0
           /\ result.anomalies = <<>>
           /\ result.ensemble_confidence = NoAnomalyConfidence
    /\ result # NotCalled =>
           \A k \in 1..Len(result.anomalies) :
               LET a == result.anomalies[k]
                   values == IF a.metric = "cpu" THEN arg1.metrics[1].values
                             ELSE arg1.metrics[2].values
               IN  /\ Len(values) >= 9
                   /\ a.value = values[a.point]
                   /\ a.z_score >= 25

\* The series of the scenario was analysed and nothing was flagged.
C21_Witness ==
    /\ ScenarioCall
    /\ arg1.model_names = <<>>
    /\ result.total_anomalies = 0
    /\ result.model_results["Statistical"].anomalies_count = 0
    /\ ~result.model_results["Statistical"].error

\* The models the call runs: those of the list whose name, in lower case, is
\* among the requested names, all of them when none is requested.
ActiveModels ==
    IF arg1.model_names = <<>> THEN arg1.models
    ELSE SelectSeq(arg1.models, LAMBDA m : m = "Statistical")

\* What the models that do not raise find, in the order of the models.
FoundByReturning ==
    Flatten([k \in 1..Len(ActiveModels) |->
                model_detect_anomalies(ActiveModels[k], arg1.metrics).anomalies])

\* C22: every call returns a result; the sub-result of a model that raised
\* records the error with no anomalies, that of a model that returned holds
\* what it found; the aggregate list is what the returning models found;
\* total_anomalies is the sum of the sub-results' counts and the sum of the
\* severity counts; and the confidence is 0.5 when nothing was flagged.
C22_DetectorErrorIsIsolated ==
    result # NotCalled =>
        /\ DOMAIN result.model_results = Elems(ActiveModels)
        /\ \A m \in Elems(ActiveModels) :
               LET call == model_detect_anomalies(m, arg1.metrics)
                   sub == result.model_results[m]
               IN  /\ sub.error = call.raised
                   /\ call.raised => (sub.anomalies_count = 0 /\ sub.anomalies = <<>>)
                   /\ ~call.raised => /\ sub.anomalies = call.anomalies
                                      /\ sub.anomalies_count = Len(call.anomalies)
        /\ result.anomalies = FoundByReturning
        /\ result.total_anomalies = Len(FoundByReturning)
        /\ result.total_anomalies =
               SumSeq([k \in 1..Len(ActiveModels) |->
                          result.model_results[ActiveModels[k]].anomalies_count])
        /\ \A v \in {"critical", "warning", "low"} : result.severity_breakdown[v] = 0
        /\ result.total_anomalies =
               result.severity_breakdown["high"] + result.severity_breakdown["medium"]
        /\ result.total_anomalies = 0 => result.ensemble_confidence = 500

\* The base-class model raised before the statistical model ran, and the
\* statistical model's outliers, of both severities, are the aggregate.
C22_Witness ==
    /\ result # NotCalled
    /\ arg1.models = <<"Custom", "Statistical">>
    /\ arg1.model_names = <<>>
    /\ result.model_results["Custom"].error
    /\ result.model_results["Custom"].anomalies_count = 0
    /\ result.model_results["Statistical"].anomalies_count = 2
    /\ result.total_anomalies = 2
    /\ result.severity_breakdown["high"] = 1
    /\ result.severity_breakdown["medium"] = 1

\* The list s with some of its elements dropped, the others in their order.
IsSubsequence(s, t) ==
    \E keep \in SUBSET (1..Len(t)) :
        s = LET pos == SelectSeq([k \in 1..Len(t) |-> k], LAMBDA k : k \in keep)
            IN  [k \in 1..Len(pos) |-> t[pos[k]]]

\* The members of the batch that are in no detected pair.
Unopposed ==
    {o \in Batch : \A k \in 1..Len(conflicts) : o \notin {conflicts[k][1], conflicts[k][2]}}

\* One pass of the loop of _resolve_conflicts over the pair at hand: with both
\* members in the working list, the one resolve_conflict did not choose
\* leaves it and is marked cancelled and nothing else changes; otherwise
\* neither the list nor any action changes.
PairIsSettled ==
    LET a1 == conflicts[ci][1]
        a2 == conflicts[ci][2]
        chosen == resolve_conflict(objs[a1], objs[a2]).id
        loser == IF chosen = objs[a1].id THEN a2 ELSE a1
        winner == IF chosen = objs[a1].id THEN a1 ELSE a2
    IN  IF {a1, a2} \subseteq Kept
        THEN /\ Elems(resolved_actions') = Kept \ {loser}
             /\ Len(resolved_actions') = Len(resolved_actions) - 1
             /\ winner \in Elems(resolved_actions')
             /\ objs'[loser] = [objs[loser] EXCEPT !.status = "cancelled"]
             /\ \A o \in DOMAIN objs \ {loser} : objs'[o] = objs[o]
        ELSE /\ resolved_actions' = resolved_actions
             /\ objs' = objs

\* While a tick is past its snapshot the working list is the batch with
\* some members dropped, in the order of the batch, which is the order of
\* submission; the members in no pair are in it, and the dropped ones are
\* cancelled.
KeptIsOrderedRest ==
    pc \in {"resolve", "execute", "executing", "gauge"} =>
        /\ IsSubsequence(resolved_actions, pending_actions)
        /\ \A k \in 1..(Len(pending_actions) - 1) :
               objs[pending_actions[k]].created_at < objs[pending_actions[k + 1]].created_at
        /\ Unopposed \subseteq Kept
        /\ \A o \in Batch \ Kept : objs[o].status = "cancelled"

\* C23: _resolve_conflicts goes through the detected pairs in order; a pair
\* with both members in the working list loses exactly the member that
\* resolve_conflict did not choose, which is marked cancelled; a pair with a
\* member already removed changes nothing; the members in no pair stay; and
\* the kept list is in submission order.
C23_GreedyPairwiseElimination ==
    /\ []KeptIsOrderedRest
    /\ [][pc = "resolve" => PairIsSettled]_vars

\* The second pair of a batch of three was skipped: its first member had
\* lost to the first action, and its second member, which it would have
\* beaten, is kept next to that first action.
C23_Witness ==
    /\ pc = "execute"
    /\ Len(pending_actions) = 3
    /\ conflicts = <<(<<pending_actions[1], pending_actions[2]>>),
                     (<<pending_actions[2], pending_actions[3]>>)>>
    /\ resolved_actions = <<pending_actions[1], pending_actions[3]>>
    /\ objs[pending_actions[2]].status = "cancelled"
    /\ objs[pending_actions[3]].status = "pending"
    /\ resolve_conflict(objs[pending_actions[2]], objs[pending_actions[3]]).id
           = objs[pending_actions[2]].id

\* The pair p comes before the pair q in the nested loops over a batch.
LoopOrder(p, q) == p[1] < q[1] \/ (p[1] = q[1] /\ p[2] < q[2])

\* C24: the pairs detect_conflicts returns are pairs of positions i < j,
\* each once and in the order of the nested loops; a pair is returned
\* exactly when the two targets are equal or the two types are one of the
\* two conflicting pairs, in either order; the relation is symmetric; and
\* two actions of one type on different targets are not a pair.
C24_DetectEmitsExactlyConflictingPairs ==
    result # NotCalled =>
        /\ \A k \in 1..Len(result.conflicts) :
               /\ result.conflicts[k][1] \in 1..Len(arg1)
               /\ result.conflicts[k][2] \in 1..Len(arg1)
               /\ result.conflicts[k][1] < result.conflicts[k][2]
        /\ \A k \in 1..(Len(result.conflicts) - 1) : LoopOrder(result.conflicts[k], result.conflicts[k + 1])
        /\ \A i, j \in 1..Len(arg1) :
               i < j =>
                   /\ <<i, j>> \in Elems(result.conflicts) <=>
                          \/ arg1[i].target = arg1[j].target
                          \/ ConflictingTypePair(arg1[i].type, arg1[j].type)
                   /\ actions_conflict(arg1[i], arg1[j]) = actions_conflict(arg1[j], arg1[i])
                   /\ (arg1[i].type = arg1[j].type /\ arg1[i].target # arg1[j].target)
                          => <<i, j>> \notin Elems(result.conflicts)

\* A batch of three on two targets: the first two conflict by
\* type only, written in the reverse of the listed order, the first and the
\* third by target, and the second and the third, of one type on different
\* targets, do not.
C24_Witness ==
    /\ result # NotCalled
    /\ result.conflicts = <<(<<1, 2>>), (<<1, 3>>)>>
    /\ arg1[1].type = "resource_scaling"
    /\ arg1[2].type = "node_remediation"
    /\ arg1[3].type = "node_remediation"
    /\ arg1[1].target # arg1[2].target
    /\ arg1[1].target = arg1[3].target

\* The object o is what the store holds for its id, is pending, and its id
\* is in the queue: a tick that takes its snapshot now has it in its batch.
AwaitsTick(o) ==
    /\ objs[o].status = "pending"
    /\ actions[objs[o].id] = o
    /\ objs[o].id \in Elems(action_queue)

\* The step is one of the scheduler thread inside a tick.
StepOfTick == pc # "sleep" /\ <<pc, ci, ei>>' # <<pc, ci, ei>>

\* C25: a step of a tick leaves every action outside the tick's snapshot as
\* it is, and one that is pending with its id in the queue keeps its id in
\* the queue; the snapshot of the next tick holds every such action.
C25_LateSubmissionWaitsForNextTick ==
    [][/\ StepOfTick =>
             \A o \in DOMAIN objs \ Batch :
                 /\ objs'[o] = objs[o]
                 /\ AwaitsTick(o) => objs[o].id \in Elems(action_queue')
       /\ (pc = "sleep" /\ pc' # "sleep") =>
             \A o \in DOMAIN objs : AwaitsTick(o) => o \in Elems(pending_actions')]_vars

\* The two actions share their target or have a conflicting pair of types.
InConflict(a, b) == a.target = b.target \/ ConflictingTypePair(a.type, b.type)

\* C26: once a tick is past conflict resolution, no two of the actions it
\* keeps, and so no two of those it sets to running, share a target or have
\* a conflicting pair of types.
C26_KeptIsConflictFree ==
    pc \in {"execute", "executing", "gauge"} =>
        /\ Dispatched \subseteq Kept
        /\ \A i, j \in 1..Len(resolved_actions) :
               i < j => ~InConflict(objs[resolved_actions[i]], objs[resolved_actions[j]])

\* A tick over three actions dropped one and ran the other two, the first
\* and the last of the batch.
C26_Witness ==
    /\ pc = "gauge"
    /\ Len(pending_actions) = 3
    /\ resolved_actions = <<pending_actions[1], pending_actions[3]>>
    /\ objs[pending_actions[2]].status = "cancelled"
    /\ \A o \in Kept : objs[o].status = "completed" /\ objs[o].started_at

\* C27: every stored action that is pending has its id in the queue.
C27_PendingIsQueued ==
    \A id \in Ids :
        (actions[id] # 0 /\ objs[actions[id]].status = "pending")
            => id \in Elems(action_queue)

\* C28: while the loop runs and executor calls return, the action stored
\* under an id, once pending, reaches a terminal status.
C28_PendingReachesTerminal ==
    \A id \in Ids :
        (actions[id] # 0 /\ objs[actions[id]].status = "pending")
            ~> (actions[id] # 0 /\ objs[actions[id]].status \in Terminal)

\* C29: a tick past conflict resolution has kept at least one action of its
\* batch, and at its end has executed one.
C29_TickKeepsSomeAction ==
    /\ pc \in {"execute", "executing", "gauge"} => Kept # {}
    /\ pc = "gauge" => \E o \in Kept : objs[o].started_at

\* The trigger is one of those the claim says submit nothing: dryRun set, an
\* action name outside the mapping, or no incidentId or no action.
SubmitsNothing(data) ==
    \/ data.dryRun = "true"
    \/ data.action \notin DOMAIN action_type_mapping
    \/ data.incidentId \in {"absent", ""}

\* The ids the store holds an action under.
Stored == {i \in DOMAIN actions : actions[i] # 0}

\* C30: a trigger with dryRun set, an unsupported action name or a missing
\* incidentId or action leaves the store and the queue as they are; every
\* other trigger adds one action to the store, pending, ai_driven and with
\* the incident id as its target, appends its id to the queue and leaves
\* the stored actions as they are.
C30_TriggerSubmitsOneOrNothing ==
    [][IF SubmitsNothing(arg1')
       THEN UNCHANGED <<objs, actions, action_queue>>
       ELSE \E i \in DOMAIN actions \ Stored :
                /\ {j \in DOMAIN actions : actions'[j] # 0} = Stored \cup {i}
                /\ action_queue' = Append(action_queue, i)
                /\ objs'[actions'[i]].status = "pending"
                /\ objs'[actions'[i]].source = "ai_driven"
                /\ objs'[actions'[i]].target = arg1'.incidentId
                /\ \A j \in Stored : objs'[actions'[j]] = objs[actions[j]]]_vars

=============================================================================
